---- MODULE Spec2Model ----
(***************************************************************************)
(* Model of the ACME "auto" issuance helper of certd/node-acme-client.     *)
(*                                                                         *)
(*   src/unnamed/part_000  the batch orchestrator (create all records,     *)
(*                         wait, verify all, remove all, finalize)         *)
(*   src/src/auto.js       the inline orchestrator (per authorization:     *)
(*                         create, verify, complete, remove)               *)
(*                                                                         *)
(* One action is one turn of the JavaScript event loop: the settling of an *)
(* awaited operation (or the firing of a timer) together with the whole    *)
(* synchronous continuation that the settlement runs, up to the next       *)
(* await.  Operations of the client and the hooks are external: whether    *)
(* each returns or raises is an input chosen with \E.  A raised value is   *)
(* an Error instance, as thrown by the repository's own code (the default  *)
(* hooks of lines 18-19 throw new Error(...)).                             *)
(***************************************************************************)
EXTENDS Integers, Sequences, FiniteSets, TLC

\* ------------------------------------------------------------------ bounds
\* Number of authorizations the server returns for the order.
NumAuthz == 2
\* Longest challenge list of an authorization (selection specification).
MaxChallenges == 3
\* Longest challengePriority list (selection specification).
MaxPriority == 2

Authz == 1..NumAuthz

\* ACME challenge types (RFC 8555 and RFC 8737).
ChallengeTypes == {"http-01", "dns-01", "tls-alpn-01"}

\* defaultOpts.challengePriority
DefaultPriority == <<"http-01", "dns-01">>

\* Array.prototype.sort implementations of the V8 releases Node has shipped:
\* "timsort" (V8 >= 7.0, Node >= 11) and "insertion" (V8 < 7.0, Node <= 10,
\* arrays of at most 10 elements).
Engines == {"timsort", "insertion"}

VARIABLES
    variant,       \* which orchestrator runs: "batch" or "inline"
    engine,        \* which Array.prototype.sort the runtime provides
    challengePriority,      \* opts.challengePriority
    skipChallengeVerification,  \* opts.skipChallengeVerification
    accountExists, \* whether client.getAccountUrl() returns (TRUE) or throws
    challenges,    \* challenges[i]: authz.challenges of authorization i
    pc,            \* where the body of issue() is suspended
    challengePromises,       \* challengePromises[i]
    selected,      \* the challenge selected for authorization i
    challengeCreatePromises,    \* challengeCreatePromises[i]
    challengeRecordInfos,          \* challengeRecordInfos[i]
    verifys,    \* verifys[i]
    willRemovePromises,    \* willRemovePromises, keyed by authorization
    pendingErr,    \* the error the try block threw, rethrown after finally
    calls,         \* calls[op][i]: invocations of op for authorization i (0: none)
    outcome,       \* history: outcome[op][i], how the call of op for i settled
    firstErr,      \* history: the first error a call of issue() raised
    result,        \* the promise issue() returned
    inlTask,       \* inline orchestrator: challengePromises[i] past its key authorization
    inlErr,        \* inline orchestrator: the error task i rethrows after its finally
    selIn,         \* selection specification: the challenge list given
    selOut,        \* selection specification: the outcome of selection
    verifierType,     \* verifier: the key of module.exports, "http-01" or "dns-01"
    keyAuthorization, \* verifier: the keyAuthorization argument
    network,          \* verifier: what the HTTP server and the resolver answer
    challengeRecord,  \* verifier: the name whose TXT records are read
    queries,          \* verifier, history: the lookups and requests made
    verified,         \* verifier: the promise the verifier returned
    csr,           \* opts.csr, as forge.readCsrDomains reads it
    orderPayload,  \* orderPayload, None until it is built
    order,         \* order, None until client.createOrder returned it
    args,          \* history: args[op][i], the arguments of the last call of op for i
    elapsed        \* ms since the stagger timers of the phase were set, as the
                   \* latest of their deadlines reached

vars == <<variant, engine, challengePriority, skipChallengeVerification, accountExists, challenges, pc, challengePromises,
          selected, challengeCreatePromises, challengeRecordInfos, verifys, willRemovePromises, pendingErr,
          calls, outcome, firstErr, result, inlTask, inlErr, selIn, selOut,
          verifierType, keyAuthorization, network, challengeRecord, queries,
          verified, csr, orderPayload, order, args, elapsed>>

\* ------------------------------------------------------------ values
None == [kind |-> "none"]

\* An Error instance raised by operation op for authorization i.
Err(op, i) == [kind |-> "error", op |-> op, idx |-> i, wrapped |-> FALSE]

\* new Error(e): a new Error instance whose message is String(e).
NewError(e) == [e EXCEPT !.wrapped = TRUE]

\* A challenge of an authorization: its type and its place in the list the
\* server sent.
Challenge(t, p) == [type |-> t, pos |-> p]

ChallengesOf(types) == [p \in 1..Len(types) |-> Challenge(types[p], p)]

\* Every list of at most n elements of S.
RECURSIVE ListsUpTo(_, _)
ListsUpTo(S, n) ==
    IF n = 0 THEN {<<>>}
    ELSE LET shorter == ListsUpTo(S, n - 1)
         IN  shorter \cup {Append(l, x) : l \in shorter, x \in S}

\* ------------------------------------------------- challenge selection
\* Array.prototype.indexOf: zero-based index of the first occurrence, -1
\* when there is none.
IndexOf(list, x) ==
    IF \E k \in 1..Len(list) : list[k] = x
    THEN (CHOOSE k \in 1..Len(list) :
              list[k] = x /\ \A j \in 1..(k - 1) : list[j] # x) - 1
    ELSE -1

\* The comparator handed to sort.
Compare(a, b, prio) ==
    LET aidx == IndexOf(prio, a.type)
        bidx == IndexOf(prio, b.type)
    IN  IF aidx = -1 THEN 1
        ELSE IF bidx = -1 THEN -1
        ELSE aidx - bidx

\* arr with the element at index from moved to index to (to <= from), the
\* elements between shifted one place to the right.
MoveTo(arr, from, to) ==
    [k \in 1..Len(arr) |->
        IF k < to \/ k > from THEN arr[k]
        ELSE IF k = to THEN arr[from]
        ELSE arr[k - 1]]

\* V8 >= 7.0, CountAndMakeRun: the length of the run starting at the first
\* element; idx is the next element to compare with its predecessor.
RECURSIVE CountRun(_, _, _, _)
CountRun(arr, prio, descending, idx) ==
    IF idx > Len(arr) THEN idx - 1
    ELSE LET ordering == Compare(arr[idx], arr[idx - 1], prio)
         IN  IF descending /\ ordering >= 0 THEN idx - 1
             ELSE IF ~descending /\ ordering < 0 THEN idx - 1
             ELSE CountRun(arr, prio, descending, idx + 1)

\* arr with its first n elements reversed.
ReverseRange(arr, n) ==
    [k \in 1..Len(arr) |-> IF k <= n THEN arr[n + 1 - k] ELSE arr[k]]

\* V8 >= 7.0, BinaryInsertionSort: the place of pivot in the sorted prefix
\* [left, right).
RECURSIVE BinarySearch(_, _, _, _, _)
BinarySearch(arr, prio, pivot, left, right) ==
    IF left >= right THEN left
    ELSE LET mid == left + ((right - left) \div 2)
             ordering == Compare(pivot, arr[mid], prio)
         IN  IF ordering < 0 THEN BinarySearch(arr, prio, pivot, left, mid)
             ELSE BinarySearch(arr, prio, pivot, mid + 1, right)

RECURSIVE BinaryInsertionSort(_, _, _)
BinaryInsertionSort(arr, prio, start) ==
    IF start > Len(arr) THEN arr
    ELSE LET left == BinarySearch(arr, prio, arr[start], 1, start)
         IN  BinaryInsertionSort(MoveTo(arr, start, left), prio, start + 1)

\* V8 >= 7.0, ArrayTimSortImpl for an array shorter than 64 elements: one
\* run is found (and reversed when descending), the rest is inserted.
TimSort(arr, prio) ==
    IF Len(arr) < 2 THEN arr
    ELSE LET descending == Compare(arr[2], arr[1], prio) < 0
             run == CountRun(arr, prio, descending, 3)
             made == IF descending THEN ReverseRange(arr, run) ELSE arr
         IN  BinaryInsertionSort(made, prio, run + 1)

\* V8 < 7.0, InsertionSort: the index the element lands on; j is the
\* element it is compared with next.
RECURSIVE InsertionPlace(_, _, _, _)
InsertionPlace(arr, prio, element, j) ==
    IF j < 1 THEN 1
    ELSE IF Compare(arr[j], element, prio) > 0
         THEN InsertionPlace(arr, prio, element, j - 1)
         ELSE j + 1

RECURSIVE InsertionSort(_, _, _)
InsertionSort(arr, prio, i) ==
    IF i > Len(arr) THEN arr
    ELSE LET place == InsertionPlace(arr, prio, arr[i], i - 1)
         IN  InsertionSort(MoveTo(arr, i, place), prio, i + 1)

\* authz.challenges.sort(comparator) on the given runtime.
SortChallenges(arr, prio, eng) ==
    IF eng = "timsort" THEN TimSort(arr, prio) ELSE InsertionSort(arr, prio, 2)

\* .sort(...).slice(0, 1)[0]: the first element of the sorted array, undefined
\* (None) when the array is empty.
SelectChallenge(arr, prio, eng) ==
    IF Len(arr) = 0 THEN None ELSE SortChallenges(arr, prio, eng)[1]

\* ---------------------------------------------------- the client and hooks
Ops == {"getAccountUrl", "createAccount", "readCsrDomains", "createOrder",
        "getAuthorizations", "getChallengeKeyAuthorization",
        "challengeCreateFn", "verifyChallenge", "completeChallenge",
        "waitForValidStatus", "challengeRemoveFn", "finalizeOrder",
        "getCertificate"}

Idx == 0..NumAuthz

\* c with one more invocation of op for every index of S.
Invoke(c, op, S) ==
    [c EXCEPT ![op] = [i \in Idx |-> IF i \in S THEN @[i] + 1 ELSE @[i]]]

\* The outcomes with the call of op for index i settled, returning (ok) or
\* raising.
Settled(op, i, ok) ==
    [outcome EXCEPT ![op][i] = IF ok THEN "returned" ELSE "raised"]

Pending == [status |-> "pending"]
Raised(e) == [status |-> "raised", value |-> e]
Returned(v) == [status |-> "returned", value |-> v]

\* What client.getChallengeKeyAuthorization returns for the challenge of
\* authorization i, and what opts.challengeCreateFn returns for it: values
\* the orchestrator only hands on.
KeyAuth(i) == [kind |-> "keyAuthorization", of |-> i]
Record(i) == [kind |-> "record", of |-> i]

\* obj[f], undefined (None) when obj has no such property.
Get(obj, f) == IF f \in DOMAIN obj THEN obj[f] ELSE None

\* { authz, keyAuthorization, domain: d, challenge } of authorization i.
ChallengeInfo(i) ==
    [authz |-> i, keyAuthorization |-> KeyAuth(i), challenge |-> selected[i]]

\* The ChallengeInfo of authorization i with the record the hook returned.
Info(i) ==
    [kind |-> "info", idx |-> i, authz |-> i, keyAuthorization |-> KeyAuth(i),
     challenge |-> selected[i], record |-> Record(i)]

\* opts.challengeCreateFn(authz, challenge, keyAuthorization)
CreateArgs(info) ==
    [authz |-> info.authz, challenge |-> info.challenge,
     keyAuthorization |-> info.keyAuthorization]

\* Variation: the removal hook is called as the creation hook is.
RemoveArgsWithoutRecord(info) ==
    [authz |-> Get(info, "authz"), challenge |-> Get(info, "challenge"),
     keyAuthorization |-> Get(info, "keyAuthorization"), record |-> None]

\* opts.challengeRemoveFn(authz, challenge, keyAuthorization, record)
RemoveArgs(info) ==
    [authz |-> Get(info, "authz"), challenge |-> Get(info, "challenge"),
     keyAuthorization |-> Get(info, "keyAuthorization"),
     record |-> Get(info, "record")]

\* No call has been made.
NoArgsYet == [op \in Ops |-> [i \in Idx |-> None]]

\* Arguments that are not recorded.
NoArgs == [i \in Idx |-> None]

\* The same arguments a for every index.
Args(a) == [i \in Idx |-> a]

\* op is called for every index of S, with the arguments a[i] for index i.
Call(op, S, a) ==
    /\ calls' = Invoke(calls, op, S)
    /\ args' = [args EXCEPT ![op] = [i \in Idx |-> IF i \in S THEN a[i] ELSE @[i]]]

\* Most alternative names of a CSR.
MaxAltNames == 2

\* Alternative names in two orders; the common name is one of them.
CsrAltNames ==
    {<<"b.com", "a.com", "c.com", "d.com">>,
     <<"c.com", "b.com", "a.com", "d.com">>}

\* What forge.readCsrDomains may read from a CSR: the common name a.com and
\* the first names of one of the lists, none to MaxAltNames of them.
CsrContents ==
    {[commonName |-> "a.com", altNames |-> SubSeq(l, 1, n)] :
        l \in CsrAltNames,
        n \in {k \in 0..MaxAltNames : k <= 4}}

\* The CSR of the runs that do not vary it.
DefaultCsr == [commonName |-> "a.com", altNames |-> <<"b.com">>]

\* Variation: the alternative names come first.
DomainsAltNamesFirst(csrDomains) ==
    csrDomains.altNames \o <<csrDomains.commonName>>

\* [csrDomains.commonName].concat(csrDomains.altNames)
Domains(csrDomains) == <<csrDomains.commonName>> \o csrDomains.altNames

\* { identifiers: domains.map((d) => ({ type: 'dns', value: d })) }
OrderPayload(csrDomains) ==
    [identifiers |->
        [k \in 1..Len(Domains(csrDomains)) |->
            [type |-> "dns", value |-> Domains(csrDomains)[k]]]]

\* The order object client.createOrder returns for a payload.
OrderOf(payload) == [kind |-> "order", identifiers |-> payload.identifiers]

\* index * 2000, the delay of sleep() in ms.
Stagger == 2000

\* Variation: the tasks do not wait.
NoDelay(index) == 0

Delay(index) == index * Stagger

\* Variation: sleep() never resolves its promise.
NeverDue(delay) == FALSE

\* setTimeout calls back no earlier than after its delay.
Due(delay) == elapsed >= delay

\* The first error raised so far, e being raised now.
Noted(e) == IF firstErr = None THEN e ELSE firstErr

Min(S) == CHOOSE x \in S : \A y \in S : x <= y

\* The challenge lists the server may send for an authorization under the
\* orchestrator specifications.
AuthzChallengeLists ==
    {ChallengesOf(<<>>), ChallengesOf(<<"dns-01", "http-01">>)}

\* ------------------------------------------------------ batch orchestrator
inputs == <<variant, engine, challengePriority, skipChallengeVerification, accountExists,
            csr>>
placed == <<orderPayload, order>>
selection == <<selIn, selOut>>
inline == <<inlTask, inlErr>>
verifier == <<verifierType, keyAuthorization, network, challengeRecord, queries,
              verified>>

\* The verifier is not running.
NoVerifier ==
    /\ verifierType = "none"
    /\ keyAuthorization = <<>>
    /\ network = None
    /\ challengeRecord = ""
    /\ queries = <<>>
    /\ verified = Pending

InitOf(variants) ==
    /\ variant \in variants
    /\ engine \in Engines
    /\ challengePriority = DefaultPriority
    /\ skipChallengeVerification \in BOOLEAN
    /\ accountExists \in BOOLEAN
    /\ challenges \in [Authz -> AuthzChallengeLists]
    /\ pc = "start"
    /\ challengePromises = [i \in Authz |-> "idle"]
    /\ selected = [i \in Authz |-> None]
    /\ challengeCreatePromises = [i \in Authz |-> "idle"]
    /\ challengeRecordInfos = [i \in Authz |-> None]
    /\ verifys = [i \in Authz |-> "idle"]
    /\ willRemovePromises = [i \in Authz |-> "idle"]
    /\ pendingErr = None
    /\ calls = [op \in Ops |-> [i \in Idx |-> 0]]
    /\ outcome = [op \in Ops |-> [i \in Idx |-> "none"]]
    /\ firstErr = None
    /\ result = Pending
    /\ inlTask = [i \in Authz |-> "idle"]
    /\ inlErr = [i \in Authz |-> None]
    /\ selIn = <<>>
    /\ selOut = None
    /\ NoVerifier
    /\ csr = DefaultCsr
    /\ orderPayload = None
    /\ order = None
    /\ args = NoArgsYet
    /\ elapsed = 0

Init == InitOf({"batch"})

\* issue() rejects with e.
Throw(e) ==
    /\ result' = Raised(e)
    /\ pc' = "done"

\* Variation: the account is registered whether or not its URL is known.
AlwaysRegister == "createAccount"

\* try { client.getAccountUrl() } catch (e) { await client.createAccount() }:
\* the first operation issue() awaits.
FirstAwait == IF accountExists THEN "readCsrDomains" ELSE "createAccount"

\* The call of issue() up to its first await: client.getAccountUrl() is
\* synchronous; when it throws, createAccount is awaited, otherwise
\* readCsrDomains.
Issue ==
    /\ pc = "start"
    /\ calls' = Invoke(Invoke(calls, "getAccountUrl", {0}), FirstAwait, {0})
    /\ UNCHANGED args
    /\ pc' = IF FirstAwait = "createAccount" THEN "createAccount" ELSE "readCsr"
    /\ UNCHANGED <<outcome, inputs, verifier, placed, elapsed, selection, challenges, challengePromises, selected,
                   challengeCreatePromises, challengeRecordInfos, verifys, willRemovePromises, pendingErr,
                   firstErr, result, inline>>

\* await client.createAccount(accountPayload) settles.
CreateAccountSettle(ok) ==
    /\ outcome' = Settled("createAccount", 0, ok)
    /\ pc = "createAccount"
    /\ IF ok
       THEN /\ Call("readCsrDomains", {0}, NoArgs)
            /\ pc' = "readCsr"
            /\ UNCHANGED <<result, firstErr>>
       ELSE /\ Throw(Err("createAccount", 0))
            /\ firstErr' = Noted(Err("createAccount", 0))
            /\ UNCHANGED <<calls, args>>
    /\ UNCHANGED <<inputs, verifier, placed, elapsed, selection, challenges, challengePromises, selected,
                   challengeCreatePromises, challengeRecordInfos, verifys, willRemovePromises, pendingErr,
                   inline>>

\* await forge.readCsrDomains(opts.csr) settles; createOrder is called.
ReadCsrSettle(ok) ==
    /\ outcome' = Settled("readCsrDomains", 0, ok)
    /\ pc = "readCsr"
    /\ IF ok
       THEN /\ orderPayload' = OrderPayload(csr)
            /\ Call("createOrder", {0}, Args(OrderPayload(csr)))
            /\ pc' = "createOrder"
            /\ UNCHANGED <<result, firstErr>>
       ELSE /\ Throw(Err("readCsrDomains", 0))
            /\ firstErr' = Noted(Err("readCsrDomains", 0))
            /\ UNCHANGED <<calls, args, orderPayload>>
    /\ UNCHANGED <<inputs, verifier, order, elapsed, selection, challenges, challengePromises, selected,
                   challengeCreatePromises, challengeRecordInfos, verifys, willRemovePromises, pendingErr,
                   inline>>

\* await client.createOrder(orderPayload) settles; getAuthorizations is
\* called.
CreateOrderSettle(ok) ==
    /\ outcome' = Settled("createOrder", 0, ok)
    /\ pc = "createOrder"
    /\ IF ok
       THEN /\ order' = OrderOf(orderPayload)
            /\ Call("getAuthorizations", {0}, Args(OrderOf(orderPayload)))
            /\ pc' = "getAuthorizations"
            /\ UNCHANGED <<result, firstErr>>
       ELSE /\ Throw(Err("createOrder", 0))
            /\ firstErr' = Noted(Err("createOrder", 0))
            /\ UNCHANGED <<calls, args, order>>
    /\ UNCHANGED <<inputs, verifier, orderPayload, elapsed, selection, challenges, challengePromises, selected,
                   challengeCreatePromises, challengeRecordInfos, verifys, willRemovePromises, pendingErr,
                   inline>>

\* The authorizations whose challenge list yields no challenge.
NoChallenge == {i \in Authz : SelectChallenge(challenges[i], challengePriority, engine) = None}

\* authorizations.map(async (authz) => ...) up to each task's first await:
\* the list is sorted in place, the first challenge is selected, a task
\* without a challenge throws, the others call getChallengeKeyAuthorization.
\* Promise.all rejects with the rejection of the lowest such index.
SelectAll ==
    /\ challenges' = [i \in Authz |-> SortChallenges(challenges[i], challengePriority, engine)]
    /\ selected' = [i \in Authz |-> SelectChallenge(challenges[i], challengePriority, engine)]
    /\ challengePromises' = [i \in Authz |-> IF i \in NoChallenge THEN "failed" ELSE "keyAuth"]
    /\ Call("getChallengeKeyAuthorization", Authz \ NoChallenge, NoArgs)
    /\ IF NoChallenge # {}
       THEN /\ Throw(Err("select", Min(NoChallenge)))
            /\ firstErr' = Noted(Err("select", Min(NoChallenge)))
       ELSE /\ pc' = "select"
            /\ UNCHANGED <<result, firstErr>>

\* await client.getAuthorizations(order) settles.
GetAuthorizationsSettle(ok) ==
    /\ outcome' = Settled("getAuthorizations", 0, ok)
    /\ pc = "getAuthorizations"
    /\ IF ok
       THEN SelectAll
       ELSE /\ Throw(Err("getAuthorizations", 0))
            /\ firstErr' = Noted(Err("getAuthorizations", 0))
            /\ UNCHANGED <<calls, args, challenges, selected, challengePromises>>
    /\ UNCHANGED <<inputs, verifier, placed, elapsed, selection, challengeCreatePromises, challengeRecordInfos, verifys,
                   willRemovePromises, pendingErr, inline>>

\* await client.getChallengeKeyAuthorization(challenge) of task i settles.
\* When the last task returns, Promise.all(challengePromises) resolves and the
\* provisioning tasks are started, each first sleeping index * 2000 ms.  The
\* first task to raise rejects Promise.all, and issue() with it; the other
\* tasks go on.
KeyAuthSettle(i, ok) ==
    /\ outcome' = Settled("getChallengeKeyAuthorization", i, ok)
    /\ variant = "batch"
    /\ challengePromises[i] = "keyAuth"
    /\ LET tasks == [challengePromises EXCEPT ![i] = IF ok THEN "done" ELSE "failed"]
       IN  /\ challengePromises' = tasks
           /\ IF pc # "select"
              THEN UNCHANGED <<pc, result, challengeCreatePromises>>
              ELSE IF ~ok
              THEN /\ Throw(Err("getChallengeKeyAuthorization", i))
                   /\ UNCHANGED challengeCreatePromises
              ELSE IF \A j \in Authz : tasks[j] = "done"
              THEN /\ challengeCreatePromises' = [j \in Authz |-> "sleeping"]
                   /\ pc' = "create"
                   /\ UNCHANGED result
              ELSE UNCHANGED <<pc, result, challengeCreatePromises>>
    /\ firstErr' = IF ok THEN firstErr
                   ELSE Noted(Err("getChallengeKeyAuthorization", i))
    /\ UNCHANGED <<inputs, verifier, placed, elapsed, selection, challenges, selected, challengeRecordInfos, verifys,
                   willRemovePromises, pendingErr, calls, args, inline>>

\* setTimeout of sleep(index * 2000) fires for provisioning task i: timers
\* set in one turn fire in the order of their delays.  The task calls
\* opts.challengeCreateFn.
CreateWake(i) ==
    /\ challengeCreatePromises[i] = "sleeping"
    /\ Due(Delay(i - 1))
    /\ \A j \in Authz : j < i => challengeCreatePromises[j] # "sleeping"
    /\ challengeCreatePromises' = [challengeCreatePromises EXCEPT ![i] = "hook"]
    /\ Call("challengeCreateFn", {i}, Args(CreateArgs(ChallengeInfo(i))))
    /\ UNCHANGED <<outcome, inputs, verifier, placed, elapsed, selection, challenges, pc, challengePromises, selected, challengeRecordInfos,
                   verifys, willRemovePromises, pendingErr, firstErr, result,
                   inline>>

\* Variation: the check for errors among the items finds none.
HasNoError(items) == {}

\* Variation: the items to remove are filtered by (item) => item alone.
WillRemoveAny(items) == {i \in Authz : items[i].kind # "none"}

\* challengeRecordInfos.filter((item) => item instanceof Error), as the
\* indices kept; hasError[0] is the one of the lowest index.
HasError(items) == {i \in Authz : items[i].kind = "error"}

\* challengeRecordInfos.filter((item) => item && !(item instanceof Error))
WillRemove(items) == {i \in Authz : items[i].kind = "info"}

\* What follows the finally block: the pending error is rethrown, or
\* client.finalizeOrder is called.
AfterFinally(err) ==
    IF err # None
    THEN /\ Throw(err)
         /\ UNCHANGED <<calls, args>>
    ELSE /\ Call("finalizeOrder", {0}, Args(order))
         /\ pc' = "finalize"
         /\ UNCHANGED result

\* The try block ended with err (None: normally): catch rethrows it, and
\* the finally block starts one removal task per kept item, each first
\* sleeping index * 2000 ms, and awaits them all.
Finally(items, err) ==
    /\ pendingErr' = err
    /\ IF WillRemove(items) = {}
       THEN /\ AfterFinally(err)
            /\ UNCHANGED willRemovePromises
       ELSE /\ willRemovePromises' = [i \in Authz |->
                                IF i \in WillRemove(items) THEN "sleeping" ELSE "idle"]
            /\ pc' = "cleanup"
            /\ UNCHANGED <<calls, args, result>>

\* Variations: the first task to return ends the wait (Promise.race).
AnyCreated(tasks) == \E j \in Authz : tasks[j] = "done"

AnyVerified(tasks) == \E j \in Authz : tasks[j] = "done"

AnyRemoved(tasks) == \E j \in Authz : tasks[j] \in {"removed", "caught"}

\* Variation: a removal task does not catch the error of its hook, and the
\* finally block completes with it.
FinallyErrorUncaught(tasks, err) ==
    IF \E j \in Authz : tasks[j] = "caught"
    THEN Err("challengeRemoveFn", Min({j \in Authz : tasks[j] = "caught"}))
    ELSE err

\* Promise.all(challengeCreatePromises) resolves: every task has returned.
AllCreated(tasks) == \A j \in Authz : tasks[j] = "done"

\* Promise.all(verifys) resolves: every task has returned.
AllVerified(tasks) == \A j \in Authz : tasks[j] = "done"

\* Promise.all(willRemovePromises) resolves: every task has returned.
AllRemoved(tasks) == \A j \in Authz : tasks[j] \in {"idle", "removed", "caught"}

\* The completion of the finally block when the try block ended with err:
\* every removal task catches the error of its hook (lines 189-194), so the
\* block completes normally and the completion of the try block stands.
FinallyError(tasks, err) == err

\* Variation: the catch block of a provisioning task logs the error and
\* returns nothing.
CreateResultDropped(i, ok) == IF ok THEN Info(i) ELSE None

\* What provisioning task i returns: its challengeInfo with the record, or
\* the error it caught (lines 133-139).
CreateResult(i, ok) == IF ok THEN Info(i) ELSE Err("challengeCreateFn", i)

\* The error thrown at line 149.
CreateError(items) == NewError(items[Min(HasError(items))])

\* await opts.challengeCreateFn(...) of task i settles: the task returns
\* its challengeInfo, or the error it caught.  When the last task has
\* returned, Promise.all(challengeCreatePromises) resolves and the try block
\* is entered: with an error among the items it throws, otherwise it sleeps
\* 30000 ms.
CreateSettle(i, ok) ==
    /\ outcome' = Settled("challengeCreateFn", i, ok)
    /\ challengeCreatePromises[i] = "hook"
    /\ LET it == CreateResult(i, ok)
           items == [challengeRecordInfos EXCEPT ![i] = it]
           tasks == [challengeCreatePromises EXCEPT ![i] = "done"]
       IN  /\ challengeRecordInfos' = items
           /\ challengeCreatePromises' = tasks
           /\ firstErr' = IF ok THEN firstErr ELSE Noted(it)
           /\ elapsed' = IF AllCreated(tasks) THEN 0 ELSE elapsed
           /\ IF ~AllCreated(tasks)
              THEN UNCHANGED <<pc, willRemovePromises, pendingErr, calls, args, result>>
              ELSE IF HasError(items) # {}
              THEN Finally(items, CreateError(items))
              ELSE /\ pc' = "settle"
                   /\ UNCHANGED <<willRemovePromises, pendingErr, calls, args, result>>
    /\ UNCHANGED <<inputs, verifier, placed, selection, challenges, challengePromises, selected,
                   verifys, inline>>

\* Variation: verification is run whatever the options say.
AlwaysVerify == "verifyChallenge"

\* The first call of a verification task: client.verifyChallenge, or with
\* skipChallengeVerification client.completeChallenge.
FirstVerifyOp == IF skipChallengeVerification THEN "completeChallenge" ELSE "verifyChallenge"

\* sleep(30000) is over: challengeRecordInfos.map(async ...) runs every
\* verification task up to its first await.
SettleWake ==
    /\ pc = "settle"
    /\ verifys' = [i \in Authz |-> IF skipChallengeVerification THEN "complete" ELSE "verify"]
    /\ Call(FirstVerifyOp, Authz, NoArgs)
    /\ pc' = "verify"
    /\ UNCHANGED <<outcome, inputs, verifier, placed, elapsed, selection, challenges, challengePromises, selected,
                   challengeCreatePromises, challengeRecordInfos, willRemovePromises, pendingErr, firstErr, result,
                   inline>>

\* A verification task rejects with e: the first to do so rejects
\* Promise.all(verifys), which ends the try block.
VerifyFail(e) ==
    /\ firstErr' = Noted(e)
    /\ IF pc = "verify"
       THEN Finally(challengeRecordInfos, e)
       ELSE UNCHANGED <<pc, willRemovePromises, pendingErr, calls, args, result>>

\* await client.verifyChallenge(authz, challenge) of task i settles.
VerifySettle(i, ok) ==
    /\ outcome' = Settled("verifyChallenge", i, ok)
    /\ verifys[i] = "verify"
    /\ IF ok
       THEN /\ verifys' = [verifys EXCEPT ![i] = "complete"]
            /\ Call("completeChallenge", {i}, NoArgs)
            /\ UNCHANGED <<pc, willRemovePromises, pendingErr, result, firstErr>>
       ELSE /\ verifys' = [verifys EXCEPT ![i] = "failed"]
            /\ VerifyFail(Err("verifyChallenge", i))
    /\ UNCHANGED <<inputs, verifier, placed, elapsed, selection, challenges, challengePromises, selected,
                   challengeCreatePromises, challengeRecordInfos, inline>>

\* await client.completeChallenge(challenge) of task i settles.
CompleteSettle(i, ok) ==
    /\ outcome' = Settled("completeChallenge", i, ok)
    /\ verifys[i] = "complete"
    /\ IF ok
       THEN /\ verifys' = [verifys EXCEPT ![i] = "wait"]
            /\ Call("waitForValidStatus", {i}, NoArgs)
            /\ UNCHANGED <<pc, willRemovePromises, pendingErr, result, firstErr>>
       ELSE /\ verifys' = [verifys EXCEPT ![i] = "failed"]
            /\ VerifyFail(Err("completeChallenge", i))
    /\ UNCHANGED <<inputs, verifier, placed, elapsed, selection, challenges, challengePromises, selected,
                   challengeCreatePromises, challengeRecordInfos, inline>>

\* await client.waitForValidStatus(challenge) of task i settles.  When the
\* last task has returned, Promise.all(verifys) resolves and the try block
\* ends normally.
WaitSettle(i, ok) ==
    /\ outcome' = Settled("waitForValidStatus", i, ok)
    /\ verifys[i] = "wait"
    /\ IF ok
       THEN LET tasks == [verifys EXCEPT ![i] = "done"]
            IN  /\ verifys' = tasks
                /\ UNCHANGED firstErr
                /\ IF pc = "verify" /\ AllVerified(tasks)
                   THEN Finally(challengeRecordInfos, None)
                   ELSE UNCHANGED <<pc, willRemovePromises, pendingErr, calls, args, result>>
       ELSE /\ verifys' = [verifys EXCEPT ![i] = "failed"]
            /\ VerifyFail(Err("waitForValidStatus", i))
    /\ UNCHANGED <<inputs, verifier, placed, elapsed, selection, challenges, challengePromises, selected,
                   challengeCreatePromises, challengeRecordInfos, inline>>

\* The index of the item of authorization i in the filtered array.
RemoveIndex(i) == Cardinality({j \in WillRemove(challengeRecordInfos) : j < i})

\* setTimeout of sleep(index * 2000) fires for removal task i, in the order
\* of the delays; the task calls opts.challengeRemoveFn.
RemoveWake(i) ==
    /\ willRemovePromises[i] = "sleeping"
    /\ Due(Delay(RemoveIndex(i)))
    /\ \A j \in Authz : j < i => willRemovePromises[j] # "sleeping"
    /\ willRemovePromises' = [willRemovePromises EXCEPT ![i] = "hook"]
    /\ Call("challengeRemoveFn", {i}, Args(RemoveArgs(challengeRecordInfos[i])))
    /\ UNCHANGED <<outcome, inputs, verifier, placed, elapsed, selection, challenges, pc, challengePromises, selected,
                   challengeCreatePromises, challengeRecordInfos, verifys, pendingErr, firstErr, result,
                   inline>>

\* What a removal task does with the outcome of opts.challengeRemoveFn: an
\* error is caught and logged, the task returns either way.
RemoveOutcome(ok) == IF ok THEN "removed" ELSE "caught"

\* await opts.challengeRemoveFn(...) of task i settles.  When the last
\* removal task has returned, Promise.all(willRemovePromises) resolves and
\* the finally block is left.
RemoveSettle(i, ok) ==
    /\ outcome' = Settled("challengeRemoveFn", i, ok)
    /\ willRemovePromises[i] = "hook"
    /\ LET tasks == [willRemovePromises EXCEPT ![i] = RemoveOutcome(ok)]
       IN  /\ willRemovePromises' = tasks
           /\ elapsed' = IF AllRemoved(tasks) THEN 0 ELSE elapsed
           /\ IF AllRemoved(tasks)
              THEN AfterFinally(FinallyError(tasks, pendingErr))
              ELSE UNCHANGED <<pc, calls, args, result>>
    /\ UNCHANGED <<inputs, verifier, placed, selection, challenges, challengePromises, selected,
                   challengeCreatePromises, challengeRecordInfos, verifys, pendingErr, firstErr, inline>>

\* The delays of the stagger timers that have not called back.
SleepingDelays ==
    {Delay(i - 1) : i \in {j \in Authz : challengeCreatePromises[j] = "sleeping"}}
    \cup {Delay(RemoveIndex(i)) : i \in {j \in Authz : willRemovePromises[j] = "sleeping"}}

\* Time passes while stagger timers are set, up to the next deadline.
Tick ==
    /\ \E d \in SleepingDelays : d > elapsed
    /\ elapsed' = Min({d \in SleepingDelays : d > elapsed})
    /\ UNCHANGED <<outcome, inputs, verifier, placed, selection, challenges, pc,
                   challengePromises, selected, challengeCreatePromises,
                   challengeRecordInfos, verifys, willRemovePromises, pendingErr,
                   calls, args, firstErr, result, inline>>

\* await client.finalizeOrder(order, opts.csr) settles; getCertificate is
\* called and its promise returned.
FinalizeSettle(ok) ==
    /\ outcome' = Settled("finalizeOrder", 0, ok)
    /\ pc = "finalize"
    /\ IF ok
       THEN /\ Call("getCertificate", {0}, Args(order))
            /\ pc' = "getCertificate"
            /\ UNCHANGED <<result, firstErr>>
       ELSE /\ Throw(Err("finalizeOrder", 0))
            /\ firstErr' = Noted(Err("finalizeOrder", 0))
            /\ UNCHANGED <<calls, args>>
    /\ UNCHANGED <<inputs, verifier, placed, elapsed, selection, challenges, challengePromises, selected,
                   challengeCreatePromises, challengeRecordInfos, verifys, willRemovePromises, pendingErr,
                   inline>>

\* The promise of client.getCertificate(order, opts.preferredChain), which
\* issue() returned, settles.
GetCertificateSettle(ok) ==
    /\ outcome' = Settled("getCertificate", 0, ok)
    /\ pc = "getCertificate"
    /\ pc' = "done"
    /\ IF ok
       THEN /\ result' = Returned("certificate")
            /\ UNCHANGED firstErr
       ELSE /\ result' = Raised(Err("getCertificate", 0))
            /\ firstErr' = Noted(Err("getCertificate", 0))
    /\ UNCHANGED <<inputs, verifier, placed, elapsed, selection, challenges, challengePromises, selected,
                   challengeCreatePromises, challengeRecordInfos, verifys, willRemovePromises, pendingErr,
                   calls, args, inline>>

Next ==
    \/ Issue
    \/ \E ok \in BOOLEAN : CreateAccountSettle(ok)
    \/ \E ok \in BOOLEAN : ReadCsrSettle(ok)
    \/ \E ok \in BOOLEAN : CreateOrderSettle(ok)
    \/ \E ok \in BOOLEAN : GetAuthorizationsSettle(ok)
    \/ \E i \in Authz, ok \in BOOLEAN : KeyAuthSettle(i, ok)
    \/ \E i \in Authz : CreateWake(i)
    \/ \E i \in Authz, ok \in BOOLEAN : CreateSettle(i, ok)
    \/ SettleWake
    \/ \E i \in Authz, ok \in BOOLEAN : VerifySettle(i, ok)
    \/ \E i \in Authz, ok \in BOOLEAN : CompleteSettle(i, ok)
    \/ \E i \in Authz, ok \in BOOLEAN : WaitSettle(i, ok)
    \/ \E i \in Authz : RemoveWake(i)
    \/ \E i \in Authz, ok \in BOOLEAN : RemoveSettle(i, ok)
    \/ Tick
    \/ \E ok \in BOOLEAN : FinalizeSettle(ok)
    \/ \E ok \in BOOLEAN : GetCertificateSettle(ok)

Spec == Init /\ [][Next]_vars

\* The runs of the batch orchestrator on one runtime (the sort bears only on
\* which challenge is selected).
InitLive == Init /\ engine = "timsort"

\* The assumption of termination claims: whatever can happen next (an
\* operation or a timer settling, and the continuation it runs) does happen.
SpecLive == InitLive /\ [][Next]_vars /\ WF_vars(Next)

\* ----------------------------------------------------- inline orchestrator
\* src/src/auto.js shares lines 31-110 with the batch orchestrator: Issue,
\* CreateAccountSettle, ReadCsrSettle, CreateOrderSettle and
\* GetAuthorizationsSettle are its steps too, and so are FinalizeSettle and
\* GetCertificateSettle.  In its states challengeRecordInfos[i] is recordItem of task i and
\* willRemovePromises[i] what the task did with the outcome of challengeRemoveFn.

\* A task of challengePromises rejects with e: the first to do so rejects
\* Promise.all(challengePromises), and issue() with it.
InlReject(e) ==
    IF pc = "select"
    THEN Throw(e)
    ELSE UNCHANGED <<pc, result>>

\* opts.challengeRemoveFn(authz, challenge, keyAuthorization, recordItem),
\* recordItem undefined (None) unless opts.challengeCreateFn returned.
InlRemoveArgs(i) ==
    [authz |-> i, challenge |-> selected[i], keyAuthorization |-> KeyAuth(i),
     record |-> IF challengeRecordInfos[i] = None THEN None ELSE challengeRecordInfos[i].record]

\* The try block of task i ended with e (None: normally): the finally block
\* calls opts.challengeRemoveFn(authz, challenge, keyAuthorization, recordItem).
InlFinally(i, e) ==
    /\ inlErr' = [inlErr EXCEPT ![i] = e]
    /\ inlTask' = [inlTask EXCEPT ![i] = "remove"]
    /\ Call("challengeRemoveFn", {i}, Args(InlRemoveArgs(i)))
    /\ firstErr' = IF e = None THEN firstErr ELSE Noted(e)

\* await client.getChallengeKeyAuthorization(challenge) of task i settles;
\* inside the try block opts.challengeCreateFn is called.
InlKeyAuthSettle(i, ok) ==
    /\ outcome' = Settled("getChallengeKeyAuthorization", i, ok)
    /\ variant = "inline"
    /\ challengePromises[i] = "keyAuth"
    /\ IF ok
       THEN /\ challengePromises' = [challengePromises EXCEPT ![i] = "done"]
            /\ inlTask' = [inlTask EXCEPT ![i] = "create"]
            /\ Call("challengeCreateFn", {i}, Args(CreateArgs(ChallengeInfo(i))))
            /\ UNCHANGED <<pc, result, firstErr>>
       ELSE /\ challengePromises' = [challengePromises EXCEPT ![i] = "failed"]
            /\ inlTask' = [inlTask EXCEPT ![i] = "failed"]
            /\ InlReject(Err("getChallengeKeyAuthorization", i))
            /\ firstErr' = Noted(Err("getChallengeKeyAuthorization", i))
            /\ UNCHANGED <<calls, args>>
    /\ UNCHANGED <<inputs, verifier, placed, elapsed, selection, challenges, selected, challengeCreatePromises, challengeRecordInfos,
                   verifys, willRemovePromises, pendingErr, inlErr>>

\* recordItem = await opts.challengeCreateFn(...) of task i settles.
InlCreateSettle(i, ok) ==
    /\ outcome' = Settled("challengeCreateFn", i, ok)
    /\ inlTask[i] = "create"
    /\ IF ok
       THEN /\ challengeRecordInfos' = [challengeRecordInfos EXCEPT ![i] = Info(i)]
            /\ inlTask' = [inlTask EXCEPT ![i] = IF skipChallengeVerification THEN "complete" ELSE "verify"]
            /\ Call(FirstVerifyOp, {i}, NoArgs)
            /\ UNCHANGED <<inlErr, firstErr>>
       ELSE /\ InlFinally(i, Err("challengeCreateFn", i))
            /\ UNCHANGED challengeRecordInfos
    /\ UNCHANGED <<inputs, verifier, placed, elapsed, selection, challenges, pc, challengePromises, selected,
                   challengeCreatePromises, verifys, willRemovePromises, pendingErr, result>>

\* await client.verifyChallenge(authz, challenge) of task i settles.
InlVerifySettle(i, ok) ==
    /\ outcome' = Settled("verifyChallenge", i, ok)
    /\ inlTask[i] = "verify"
    /\ IF ok
       THEN /\ inlTask' = [inlTask EXCEPT ![i] = "complete"]
            /\ Call("completeChallenge", {i}, NoArgs)
            /\ UNCHANGED <<inlErr, firstErr>>
       ELSE InlFinally(i, Err("verifyChallenge", i))
    /\ UNCHANGED <<inputs, verifier, placed, elapsed, selection, challenges, pc, challengePromises, selected,
                   challengeCreatePromises, challengeRecordInfos, verifys, willRemovePromises, pendingErr, result>>

\* await client.completeChallenge(challenge) of task i settles.
InlCompleteSettle(i, ok) ==
    /\ outcome' = Settled("completeChallenge", i, ok)
    /\ inlTask[i] = "complete"
    /\ IF ok
       THEN /\ inlTask' = [inlTask EXCEPT ![i] = "wait"]
            /\ Call("waitForValidStatus", {i}, NoArgs)
            /\ UNCHANGED <<inlErr, firstErr>>
       ELSE InlFinally(i, Err("completeChallenge", i))
    /\ UNCHANGED <<inputs, verifier, placed, elapsed, selection, challenges, pc, challengePromises, selected,
                   challengeCreatePromises, challengeRecordInfos, verifys, willRemovePromises, pendingErr, result>>

\* await client.waitForValidStatus(challenge) of task i settles: the try
\* block ends.
InlWaitSettle(i, ok) ==
    /\ outcome' = Settled("waitForValidStatus", i, ok)
    /\ inlTask[i] = "wait"
    /\ InlFinally(i, IF ok THEN None ELSE Err("waitForValidStatus", i))
    /\ UNCHANGED <<inputs, verifier, placed, elapsed, selection, challenges, pc, challengePromises, selected,
                   challengeCreatePromises, challengeRecordInfos, verifys, willRemovePromises, pendingErr, result>>

\* await opts.challengeRemoveFn(...) of task i settles, its error caught and
\* logged: the task rejects with the error of its try block, or returns.
\* When the last task has returned, Promise.all(challengePromises) resolves
\* and client.finalizeOrder is called.
InlRemoveSettle(i, ok) ==
    /\ outcome' = Settled("challengeRemoveFn", i, ok)
    /\ inlTask[i] = "remove"
    /\ willRemovePromises' = [willRemovePromises EXCEPT ![i] = RemoveOutcome(ok)]
    /\ IF inlErr[i] # None
       THEN /\ inlTask' = [inlTask EXCEPT ![i] = "failed"]
            /\ InlReject(inlErr[i])
            /\ UNCHANGED <<calls, args>>
       ELSE LET tasks == [inlTask EXCEPT ![i] = "done"]
            IN  /\ inlTask' = tasks
                /\ IF pc = "select" /\ \A j \in Authz : tasks[j] = "done"
                   THEN /\ Call("finalizeOrder", {0}, Args(order))
                        /\ pc' = "finalize"
                        /\ UNCHANGED result
                   ELSE UNCHANGED <<pc, calls, args, result>>
    /\ UNCHANGED <<inputs, verifier, placed, elapsed, selection, challenges, challengePromises, selected,
                   challengeCreatePromises, challengeRecordInfos, verifys, pendingErr, firstErr, inlErr>>

NextInline ==
    \/ Issue
    \/ \E ok \in BOOLEAN : CreateAccountSettle(ok)
    \/ \E ok \in BOOLEAN : ReadCsrSettle(ok)
    \/ \E ok \in BOOLEAN : CreateOrderSettle(ok)
    \/ \E ok \in BOOLEAN : GetAuthorizationsSettle(ok)
    \/ \E i \in Authz, ok \in BOOLEAN : InlKeyAuthSettle(i, ok)
    \/ \E i \in Authz, ok \in BOOLEAN : InlCreateSettle(i, ok)
    \/ \E i \in Authz, ok \in BOOLEAN : InlVerifySettle(i, ok)
    \/ \E i \in Authz, ok \in BOOLEAN : InlCompleteSettle(i, ok)
    \/ \E i \in Authz, ok \in BOOLEAN : InlWaitSettle(i, ok)
    \/ \E i \in Authz, ok \in BOOLEAN : InlRemoveSettle(i, ok)
    \/ \E ok \in BOOLEAN : FinalizeSettle(ok)
    \/ \E ok \in BOOLEAN : GetCertificateSettle(ok)

InitInline == InitOf({"inline"})

SpecInline == InitInline /\ [][NextInline]_vars

\* Either orchestrator.
InitBoth == InitOf({"batch", "inline"})

NextBoth == Next \/ NextInline

SpecBoth == InitBoth /\ [][NextBoth]_vars

\* Order placement: either orchestrator, for every CSR, the options that do
\* not bear on it fixed.
InitOrder ==
    /\ variant \in {"batch", "inline"}
    /\ engine = "timsort"
    /\ challengePriority = DefaultPriority
    /\ skipChallengeVerification = FALSE
    /\ accountExists = FALSE
    /\ csr \in CsrContents
    /\ challenges = [i \in Authz |-> ChallengesOf(<<"dns-01", "http-01">>)]
    /\ pc = "start"
    /\ challengePromises = [i \in Authz |-> "idle"]
    /\ selected = [i \in Authz |-> None]
    /\ challengeCreatePromises = [i \in Authz |-> "idle"]
    /\ challengeRecordInfos = [i \in Authz |-> None]
    /\ verifys = [i \in Authz |-> "idle"]
    /\ willRemovePromises = [i \in Authz |-> "idle"]
    /\ pendingErr = None
    /\ calls = [op \in Ops |-> [i \in Idx |-> 0]]
    /\ outcome = [op \in Ops |-> [i \in Idx |-> "none"]]
    /\ firstErr = None
    /\ result = Pending
    /\ inlTask = [i \in Authz |-> "idle"]
    /\ inlErr = [i \in Authz |-> None]
    /\ selIn = <<>>
    /\ selOut = None
    /\ NoVerifier
    /\ orderPayload = None
    /\ order = None
    /\ args = NoArgsYet
    /\ elapsed = 0

SpecOrder == InitOrder /\ [][NextBoth]_vars

\* --------------------------------------------- selection as a function
InitSelect ==
    /\ variant = "batch"
    /\ engine \in Engines
    /\ challengePriority \in ListsUpTo(ChallengeTypes, MaxPriority)
    /\ selIn \in {ChallengesOf(l) : l \in ListsUpTo(ChallengeTypes, MaxChallenges)}
    /\ selOut = None
    /\ skipChallengeVerification = FALSE
    /\ accountExists = TRUE
    /\ challenges = [i \in Authz |-> <<>>]
    /\ pc = "start"
    /\ challengePromises = [i \in Authz |-> "idle"]
    /\ selected = [i \in Authz |-> None]
    /\ challengeCreatePromises = [i \in Authz |-> "idle"]
    /\ challengeRecordInfos = [i \in Authz |-> None]
    /\ verifys = [i \in Authz |-> "idle"]
    /\ willRemovePromises = [i \in Authz |-> "idle"]
    /\ pendingErr = None
    /\ calls = [op \in Ops |-> [i \in Idx |-> 0]]
    /\ outcome = [op \in Ops |-> [i \in Idx |-> "none"]]
    /\ firstErr = None
    /\ result = Pending
    /\ inlTask = [i \in Authz |-> "idle"]
    /\ inlErr = [i \in Authz |-> None]
    /\ NoVerifier
    /\ csr = DefaultCsr
    /\ orderPayload = None
    /\ order = None
    /\ args = NoArgsYet
    /\ elapsed = 0

\* Lines 101-112 on the challenge list selIn: the selected challenge, or the
\* error thrown when there is none.
Select ==
    /\ selOut = None
    /\ selOut' = IF SelectChallenge(selIn, challengePriority, engine) = None
                 THEN Err("select", 0)
                 ELSE SelectChallenge(selIn, challengePriority, engine)
    /\ UNCHANGED <<outcome, inputs, verifier, placed, elapsed, selIn, challenges, pc, challengePromises, selected,
                   challengeCreatePromises, challengeRecordInfos, verifys, willRemovePromises, pendingErr,
                   calls, args, firstErr, result, inline>>

NextSelect == Select

SpecSelect == InitSelect /\ [][NextSelect]_vars

\* ----------------------------------------------------- challenge verifier
\* src/unnamed/part_001, lines 10-105.  Strings are sequences of characters.
\* Longest response body and key authorization (http-01).
MaxBody == 3
\* Most targets a CNAME lookup answers with.
MaxCname == 2
\* Most TXT records a TXT lookup answers with.
MaxTxt == 1

Chars == {"a", "b", " "}

\* The characters \s matches.
Whitespace == {" "}

Texts == ListsUpTo(Chars, MaxBody)

\* getChallengeKeyAuthorization makes token "." thumbprint for http-01 and a
\* digest of it for dns-01 (RFC 8555, sections 8.1, 8.3, 8.4): never empty.
KeyAuthorizations == Texts \ {<<>>}

\* authz.identifier.value
Domain == "example.com"

\* `${prefix}${authz.identifier.value}` with the default prefix.
ChallengeName == "_acme-challenge.example.com"

Targets == {"target.example.net", "other.example.net"}

Names == {ChallengeName} \cup Targets

\* One request or lookup made.
Query(kind, name) == [kind |-> kind, name |-> name]

\* What axios.get settles with: a rejection, or a response whose data is a
\* string or missing.
HttpAnswers ==
    {[ok |-> FALSE, hasData |-> FALSE, data |-> <<>>],
     [ok |-> TRUE, hasData |-> FALSE, data |-> <<>>]}
    \cup {[ok |-> TRUE, hasData |-> TRUE, data |-> d] : d \in Texts}

\* The strings of one TXT record, and the key authorizations looked for.
TxtValues == {<<"a">>, <<"b">>}

TxtRecords == {<<<<"a">>>>, <<<<"b">>>>, <<<<"b">>, <<"a">>>>}

\* What dns.resolveCnameAsync and dns.resolveTxtAsync settle with.
CnameAnswers ==
    {[ok |-> FALSE, records |-> <<>>]}
    \cup {[ok |-> TRUE, records |-> r] : r \in ListsUpTo(Targets, MaxCname)}

TxtAnswers ==
    {[ok |-> FALSE, records |-> <<>>]}
    \cup {[ok |-> TRUE, records |-> r] : r \in ListsUpTo(TxtRecords, MaxTxt)}

\* Variation: the body is compared as it came.
StripNothing(s) == s

\* .replace(/\s+$/, ''): s without the whitespace it ends with.
RECURSIVE StripTrailing(_)
StripTrailing(s) ==
    IF Len(s) > 0 /\ s[Len(s)] \in Whitespace
    THEN StripTrailing(SubSeq(s, 1, Len(s) - 1))
    ELSE s

\* (resp.data || '')
DataOrEmpty(resp) == IF resp.hasData THEN resp.data ELSE <<>>

\* [].concat(...result): the strings of all records, in order.
RECURSIVE Flatten(_)
Flatten(answers) ==
    IF Len(answers) = 0 THEN <<>>
    ELSE answers[1] \o Flatten(Tail(answers))

\* Variation: the TXT records are read at the name first asked about.
ChallengeRecordKept(name, cname) == name

\* Lines 69-81: the first CNAME target when the lookup returned one,
\* otherwise the name unchanged; an error of the lookup is caught.
ChallengeRecordAfter(name, cname) ==
    IF cname.ok /\ Len(cname.records) > 0 THEN cname.records[1] ELSE name

InitVerifier ==
    /\ verifierType \in {"http-01", "dns-01"}
    /\ IF verifierType = "http-01"
       THEN /\ keyAuthorization \in KeyAuthorizations
            /\ network \in HttpAnswers
       ELSE /\ keyAuthorization \in TxtValues
            /\ network \in [cname : CnameAnswers, txt : [Names -> TxtAnswers]]
    /\ challengeRecord = ""
    /\ queries = <<>>
    /\ verified = Pending
    /\ variant = "batch"
    /\ engine = "timsort"
    /\ challengePriority = DefaultPriority
    /\ skipChallengeVerification = FALSE
    /\ accountExists = TRUE
    /\ challenges = [i \in Authz |-> <<>>]
    /\ pc = "start"
    /\ challengePromises = [i \in Authz |-> "idle"]
    /\ selected = [i \in Authz |-> None]
    /\ challengeCreatePromises = [i \in Authz |-> "idle"]
    /\ challengeRecordInfos = [i \in Authz |-> None]
    /\ verifys = [i \in Authz |-> "idle"]
    /\ willRemovePromises = [i \in Authz |-> "idle"]
    /\ pendingErr = None
    /\ calls = [op \in Ops |-> [i \in Idx |-> 0]]
    /\ outcome = [op \in Ops |-> [i \in Idx |-> "none"]]
    /\ firstErr = None
    /\ result = Pending
    /\ inlTask = [i \in Authz |-> "idle"]
    /\ inlErr = [i \in Authz |-> None]
    /\ selIn = <<>>
    /\ selOut = None
    /\ csr = DefaultCsr
    /\ orderPayload = None
    /\ order = None
    /\ args = NoArgsYet
    /\ elapsed = 0

orchestrator == <<challenges, pc, challengePromises, selected,
                  challengeCreatePromises, challengeRecordInfos, verifys,
                  willRemovePromises, pendingErr, calls, outcome, firstErr,
                  result, placed, args, elapsed>>

\* verifyHttpChallenge(authz, challenge, keyAuthorization) up to its await:
\* axios.get(challengeUrl) is sent.
VerifyHttpChallenge ==
    /\ verifierType = "http-01"
    /\ queries = <<>>
    /\ queries' = <<Query("GET", Domain)>>
    /\ UNCHANGED <<verifierType, keyAuthorization, network, challengeRecord,
                   verified, inputs, selection, inline, orchestrator>>

\* await axios.get(challengeUrl) settles: a rejection leaves the function;
\* otherwise the stripped body is compared with the key authorization.
HttpGetSettle ==
    /\ verifierType = "http-01"
    /\ Len(queries) = 1
    /\ verified = Pending
    /\ verified' =
          IF ~network.ok THEN Raised(Err("axios.get", 0))
          ELSE LET data == StripTrailing(DataOrEmpty(network))
               IN  IF data = <<>> \/ data # keyAuthorization
                   THEN Raised(Err("verifyHttpChallenge", 0))
                   ELSE Returned(TRUE)
    /\ UNCHANGED <<verifierType, keyAuthorization, network, challengeRecord,
                   queries, inputs, selection, inline, orchestrator>>

\* verifyDnsChallenge(authz, challenge, keyAuthorization) up to its first
\* await: dns.resolveCnameAsync(challengeRecord) is sent.
VerifyDnsChallenge ==
    /\ verifierType = "dns-01"
    /\ queries = <<>>
    /\ challengeRecord' = ChallengeName
    /\ queries' = <<Query("CNAME", ChallengeName)>>
    /\ UNCHANGED <<verifierType, keyAuthorization, network, verified, inputs,
                   selection, inline, orchestrator>>

\* await dns.resolveCnameAsync(challengeRecord) settles;
\* dns.resolveTxtAsync(challengeRecord) is sent.
DnsCnameSettle ==
    /\ verifierType = "dns-01"
    /\ Len(queries) = 1
    /\ LET name == ChallengeRecordAfter(challengeRecord, network.cname)
       IN  /\ challengeRecord' = name
           /\ queries' = Append(queries, Query("TXT", name))
    /\ UNCHANGED <<verifierType, keyAuthorization, network, verified, inputs,
                   selection, inline, orchestrator>>

\* await dns.resolveTxtAsync(challengeRecord) settles: a rejection leaves the
\* function; otherwise the key authorization is looked up among the strings.
DnsTxtSettle ==
    /\ verifierType = "dns-01"
    /\ Len(queries) = 2
    /\ verified = Pending
    /\ verified' =
          LET answer == network.txt[challengeRecord]
          IN  IF ~answer.ok THEN Raised(Err("dns.resolveTxt", 0))
              ELSE IF IndexOf(Flatten(answer.records), keyAuthorization) = -1
                   THEN Raised(Err("verifyDnsChallenge", 0))
                   ELSE Returned(TRUE)
    /\ UNCHANGED <<verifierType, keyAuthorization, network, challengeRecord,
                   queries, inputs, selection, inline, orchestrator>>

NextVerifier ==
    \/ VerifyHttpChallenge
    \/ HttpGetSettle
    \/ VerifyDnsChallenge
    \/ DnsCnameSettle
    \/ DnsTxtSettle

SpecVerifier == InitVerifier /\ [][NextVerifier]_vars

\* ------------------------------------------------------------------ claims
\* Invocations of op for index i so far.
N(op, i) == calls[op][i]

Created(i) == outcome["challengeCreateFn"][i] = "returned"
CreateRaised(i) == outcome["challengeCreateFn"][i] = "raised"
RemoveSettled(i) == outcome["challengeRemoveFn"][i] # "none"

\* C1: in the batch orchestrator challengeRemoveFn is invoked exactly once
\* for every authorization whose challengeCreateFn returned, whatever
\* verification does later, and never for one whose challengeCreateFn
\* raised: it is invoked at most once, only after a successful creation,
\* and by the time issue() settles once for each such authorization.
C1_RemoveExactlyOnce ==
    /\ \A i \in Idx : N("challengeRemoveFn", i) <= 1
    /\ \A i \in Authz : N("challengeRemoveFn", i) = 1 => Created(i)
    /\ \A i \in Authz : CreateRaised(i) => N("challengeRemoveFn", i) = 0
    /\ result.status # "pending" =>
          \A i \in Authz : Created(i) => N("challengeRemoveFn", i) = 1

\* A run whose status wait failed, with every record created and removed.
C1_Witness ==
    /\ result.status = "raised"
    /\ \E i \in Authz : outcome["waitForValidStatus"][i] = "raised"
    /\ \A j \in Authz : Created(j) /\ N("challengeRemoveFn", j) = 1

\* C2: in the batch orchestrator, once challengeCreateFn has raised for an
\* authorization, verifyChallenge, completeChallenge, waitForValidStatus,
\* finalizeOrder and getCertificate are never invoked, issue() does not
\* return, and when it raises every created record has had its
\* challengeRemoveFn invoked.
C2_CreateFailureStopsRun ==
    (\E i \in Authz : CreateRaised(i)) =>
        /\ \A j \in Authz : /\ N("verifyChallenge", j) = 0
                             /\ N("completeChallenge", j) = 0
                             /\ N("waitForValidStatus", j) = 0
        /\ N("finalizeOrder", 0) = 0
        /\ N("getCertificate", 0) = 0
        /\ result.status # "returned"
        /\ pc = "done" => result.status = "raised"
        /\ result.status = "raised" =>
              \A j \in Authz : Created(j) => N("challengeRemoveFn", j) = 1

\* issue() has raised after one creation failed and another succeeded.
C2_Witness ==
    /\ result.status = "raised"
    /\ \E i \in Authz : CreateRaised(i)
    /\ \E j \in Authz : Created(j) /\ N("challengeRemoveFn", j) = 1

\* The verify/complete/waitForValidStatus sequence of authorization j has
\* finished.
VerifyFinished(j) ==
    \/ outcome["verifyChallenge"][j] = "raised"
    \/ outcome["completeChallenge"][j] = "raised"
    \/ outcome["waitForValidStatus"][j] # "none"

\* C3: in the batch orchestrator no verifyChallenge or completeChallenge is
\* invoked before the challengeCreateFn call of every authorization has
\* settled, and finalizeOrder is not invoked before the verification
\* sequence of every authorization has finished.
C3_PhaseBarrier ==
    /\ (\E i \in Authz : N("verifyChallenge", i) > 0 \/ N("completeChallenge", i) > 0)
          => \A j \in Authz : outcome["challengeCreateFn"][j] # "none"
    /\ N("finalizeOrder", 0) > 0 => \A j \in Authz : VerifyFinished(j)

\* finalizeOrder has been invoked after challenges were verified.
C3_Witness ==
    /\ N("finalizeOrder", 0) > 0
    /\ \A j \in Authz : N("verifyChallenge", j) = 1

\* A call made for authorization i on the way to a valid challenge raised.
StepFailed(i) ==
    \E op \in {"challengeCreateFn", "verifyChallenge", "completeChallenge",
                "waitForValidStatus"} : outcome[op][i] = "raised"

\* C4: in both orchestrators finalizeOrder and getCertificate are invoked,
\* and issue() returns, only after waitForValidStatus has returned for
\* every authorization; once a creation, verification, completion or
\* status wait has failed, finalizeOrder is never invoked and issue()
\* ends raising.
C4_NoPartialCertificate ==
    /\ (\/ N("finalizeOrder", 0) > 0
        \/ N("getCertificate", 0) > 0
        \/ result.status = "returned")
          => \A i \in Authz : outcome["waitForValidStatus"][i] = "returned"
    /\ (\E i \in Authz : StepFailed(i)) =>
          /\ N("finalizeOrder", 0) = 0
          /\ result.status # "returned"
          /\ pc = "done" => result.status = "raised"

\* issue() has returned the certificate.
C4_Witness ==
    /\ result = Returned("certificate")
    /\ \A i \in Authz : outcome["waitForValidStatus"][i] = "returned"

\* C5: in the batch orchestrator, when issue() has raised, every
\* challengeRemoveFn call owed to a created record has been invoked and has
\* settled.
C5_RaisesAfterCleanup ==
    result.status = "raised" =>
        \A i \in Authz : Created(i) =>
            N("challengeRemoveFn", i) = 1 /\ RemoveSettled(i)

\* issue() has raised the error of the try block after removing records.
C5_Witness ==
    /\ result.status = "raised"
    /\ pendingErr # None
    /\ \A i \in Authz : Created(i) /\ RemoveSettled(i)

\* Records were created and every removal owed has settled.
CleanupOver ==
    /\ \E i \in Authz : Created(i)
    /\ \A i \in Authz : Created(i) => RemoveSettled(i)

\* C6: in the batch orchestrator the outcome of challengeRemoveFn does not
\* change the outcome of issue(): the error raised is never one of
\* challengeRemoveFn; once cleanup is over, whatever its hooks did, issue()
\* has raised the error of the try block, or, the block having ended
\* normally, finalizeOrder has been invoked and issue() returns what
\* getCertificate returns; and every removal owed was invoked, whether or
\* not another one raised.
C6_CleanupOutcomeIgnored ==
    /\ result.status = "raised" => result.value.op # "challengeRemoveFn"
    /\ CleanupOver =>
          /\ pendingErr # None => result = Raised(pendingErr)
          /\ pendingErr = None =>
                /\ N("finalizeOrder", 0) = 1
                /\ outcome["getCertificate"][0] = "returned"
                      => result = Returned("certificate")
                /\ result.status = "raised" =>
                      result.value.op \in {"finalizeOrder", "getCertificate"}
          /\ \A i \in Authz : Created(i) => N("challengeRemoveFn", i) = 1

\* issue() has returned the certificate although a removal hook raised.
C6_Witness ==
    /\ result = Returned("certificate")
    /\ \E i \in Authz : outcome["challengeRemoveFn"][i] = "raised"

\* C7: in the batch orchestrator the error issue() raises is the first
\* error raised in the run, as the value that was raised.
C7_RaisesFirstError == result.status = "raised" => result.value = firstErr

\* C8: in both orchestrators createAccount is invoked exactly when
\* getAccountUrl() threw, then once and before createOrder; when
\* createAccount raised, issue() has raised and createOrder, the hooks and
\* finalizeOrder are never invoked.
C8_AccountStep ==
    /\ N("createAccount", 0) = (IF pc # "start" /\ ~accountExists THEN 1 ELSE 0)
    /\ (N("createOrder", 0) > 0 /\ ~accountExists)
          => outcome["createAccount"][0] = "returned"
    /\ outcome["createAccount"][0] = "raised" =>
          /\ result = Raised(Err("createAccount", 0))
          /\ N("createOrder", 0) = 0
          /\ N("finalizeOrder", 0) = 0
          /\ \A i \in Authz : /\ N("challengeCreateFn", i) = 0
                               /\ N("challengeRemoveFn", i) = 0

\* createAccount was invoked and raised.
C8_Witness ==
    /\ ~accountExists
    /\ outcome["createAccount"][0] = "raised"
    /\ result.status = "raised"

\* The challenges of selIn whose type occurs in challengePriority.
Listed == {k \in 1..Len(selIn) : IndexOf(challengePriority, selIn[k].type) # -1}

\* What the selection rule of the specification yields for selIn.
RuleHolds ==
    IF Len(selIn) = 0 THEN selOut = Err("select", 0)
    ELSE IF Listed = {} THEN selOut = selIn[1]
    ELSE /\ selOut \in {selIn[k] : k \in Listed}
         /\ \A k \in Listed :
               IndexOf(challengePriority, selOut.type) <= IndexOf(challengePriority, selIn[k].type)

\* C9: selection yields the challenge whose type has the lowest index in
\* challengePriority; when no type of the authorization is listed, the first
\* challenge in the order the server sent; it raises when the authorization
\* has no challenge.
C9_SelectionRule == selOut # None => RuleHolds

\* C9, on the runtimes whose sort keeps the unlisted challenges in place.
C9_OnTimSort == (selOut # None /\ engine = "timsort") => RuleHolds

\* C9, apart from the tie-break among unlisted challenges.
C9_ListedFirst == (selOut # None /\ (Len(selIn) = 0 \/ Listed # {})) => RuleHolds

\* C10: in the inline orchestrator challengeRemoveFn is invoked exactly once
\* for every authorization whose challengeCreateFn returned, and never for
\* one whose challengeCreateFn raised.
C10_InlineRemoveOnlyCreated ==
    /\ \A i \in Idx : N("challengeRemoveFn", i) <= 1
    /\ \A i \in Authz : CreateRaised(i) => N("challengeRemoveFn", i) = 0
    /\ \A i \in Authz : (Created(i) /\ inlTask[i] \in {"done", "failed"})
          => N("challengeRemoveFn", i) = 1

\* The lookups of the given kind made so far.
QueriesOf(kind) == {k \in 1..Len(queries) : queries[k].kind = kind}

\* The name the claim has the TXT records read at.
TxtNameDue ==
    IF network.cname.ok /\ Len(network.cname.records) >= 1
    THEN network.cname.records[1]
    ELSE ChallengeName

\* The key authorization is one of the strings of the TXT records at name.
TxtHasKey(name) ==
    /\ network.txt[name].ok
    /\ \E r \in 1..Len(network.txt[name].records) :
          \E c \in 1..Len(network.txt[name].records[r]) :
              network.txt[name].records[r][c] = keyAuthorization

\* C11: verifyDnsChallenge reads the TXT records once, at the first target
\* of the CNAME lookup when that returned one (and then not at the original
\* name), at the original name when it returned none or raised; it returns
\* true exactly when the key authorization is among the flattened TXT
\* strings at that name, and raises otherwise.
C11_DnsVerifier ==
    verifierType = "dns-01" =>
        /\ \A k \in QueriesOf("TXT") : queries[k].name = TxtNameDue
        /\ Cardinality(QueriesOf("TXT")) <= 1
        /\ verified.status # "pending" =>
              /\ Cardinality(QueriesOf("TXT")) = 1
              /\ (verified = Returned(TRUE)) <=> TxtHasKey(TxtNameDue)
              /\ ~TxtHasKey(TxtNameDue) => verified.status = "raised"

\* The verifier succeeded on the records of the CNAME target, the original
\* name holding no record with the key authorization.
C11_Witness ==
    /\ verifierType = "dns-01"
    /\ verified = Returned(TRUE)
    /\ TxtNameDue \in Targets
    /\ ~TxtHasKey(ChallengeName)

\* t is body without the whitespace body ends with.
IsStripped(body, t) ==
    \E n \in 0..Len(body) :
        /\ t = SubSeq(body, 1, n)
        /\ \A k \in (n + 1)..Len(body) : body[k] \in Whitespace
        /\ n > 0 => body[n] \notin Whitespace

\* C12: verifyHttpChallenge returns true exactly when the GET succeeded and
\* the body without its trailing whitespace equals the key authorization;
\* with any other body, and when the GET fails, it raises.
C12_HttpVerifier ==
    (verifierType = "http-01" /\ verified.status # "pending") =>
        LET accepted == /\ network.ok
                        /\ IsStripped(DataOrEmpty(network), keyAuthorization)
        IN  /\ (verified = Returned(TRUE)) <=> accepted
            /\ ~accepted => verified.status = "raised"

\* A body of the key authorization followed by whitespace was accepted.
C12_Witness ==
    /\ verifierType = "http-01"
    /\ verified = Returned(TRUE)
    /\ Len(network.data) > Len(keyAuthorization)

\* C13: in both orchestrators createOrder is called at most once, and once
\* by the time anything is done with the order; its payload holds one
\* identifier of type dns per CSR domain, the common name first and the
\* alternative names after it in their order; the payload and the
\* identifiers of the order stay as they were; finalizeOrder and
\* getCertificate are passed the order createOrder returned.
C13_OrderPlacement ==
    LET payload == args["createOrder"][0]
    IN  /\ N("createOrder", 0) <= 1
        /\ (\/ N("getAuthorizations", 0) > 0
            \/ N("finalizeOrder", 0) > 0
            \/ result.status = "returned") => N("createOrder", 0) = 1
        /\ N("createOrder", 0) = 1 =>
              /\ Len(payload.identifiers) = 1 + Len(csr.altNames)
              /\ payload.identifiers[1] = [type |-> "dns", value |-> csr.commonName]
              /\ \A k \in 1..Len(csr.altNames) :
                    payload.identifiers[k + 1] = [type |-> "dns", value |-> csr.altNames[k]]
              /\ orderPayload = payload
        /\ order # None =>
              /\ outcome["createOrder"][0] = "returned"
              /\ order.identifiers = payload.identifiers
        /\ \A op \in {"getAuthorizations", "finalizeOrder", "getCertificate"} :
              N(op, 0) > 0 => /\ order # None
                              /\ args[op][0] = order

\* The certificate was returned for a CSR with two alternative names, one
\* of them the common name again.
C13_Witness ==
    /\ result = Returned("certificate")
    /\ Len(csr.altNames) = 2
    /\ csr.altNames[2] = csr.commonName

\* Every getChallengeKeyAuthorization call returned.
SelectionSucceeded ==
    \A i \in Authz : outcome["getChallengeKeyAuthorization"][i] = "returned"

\* C14: in the batch orchestrator challengeCreateFn is invoked at most once
\* per authorization; when selection succeeded for all, the provisioning
\* phase is not left, and issue() does not settle, before it was invoked
\* for every authorization, whether or not a sibling's call raised; a
\* failure is the result of its own authorization and leaves the results
\* of the others as they are.
C14_ProvisioningIndependent ==
    /\ \A i \in Authz : N("challengeCreateFn", i) <= 1
    /\ (SelectionSucceeded /\ pc # "create") =>
          \A i \in Authz : N("challengeCreateFn", i) = 1
    /\ \A i \in Authz :
          /\ CreateRaised(i) => challengeRecordInfos[i] = Err("challengeCreateFn", i)
          /\ Created(i) => /\ challengeRecordInfos[i].kind = "info"
                           /\ challengeRecordInfos[i].authz = i

\* The first authorization's hook raised, the second's was invoked all the
\* same and returned its record.
C14_Witness ==
    /\ CreateRaised(1)
    /\ Created(2)
    /\ result.status = "raised"

\* C15: in the batch orchestrator, per authorization, completeChallenge is
\* invoked only after verifyChallenge returned and waitForValidStatus only
\* after completeChallenge returned; with skipChallengeVerification
\* verifyChallenge is never invoked, completeChallenge is invoked for every
\* authorization once verification starts and waitForValidStatus for each
\* whose completeChallenge returned; after a verifyChallenge failure
\* completeChallenge is never invoked for that authorization.
C15_StepOrder ==
    \A i \in Authz :
        /\ N("verifyChallenge", i) <= 1
        /\ N("completeChallenge", i) <= 1
        /\ N("waitForValidStatus", i) <= 1
        /\ (~skipChallengeVerification /\ N("completeChallenge", i) > 0)
              => outcome["verifyChallenge"][i] = "returned"
        /\ N("waitForValidStatus", i) > 0
              => outcome["completeChallenge"][i] = "returned"
        /\ skipChallengeVerification =>
              /\ N("verifyChallenge", i) = 0
              /\ (\E j \in Authz : N("completeChallenge", j) > 0)
                    => N("completeChallenge", i) = 1
              /\ outcome["completeChallenge"][i] = "returned"
                    => N("waitForValidStatus", i) = 1
        /\ outcome["verifyChallenge"][i] = "raised"
              => /\ N("completeChallenge", i) = 0
                 /\ N("waitForValidStatus", i) = 0
        /\ result.status = "returned" =>
              /\ N("completeChallenge", i) = 1
              /\ N("waitForValidStatus", i) = 1

\* One authorization failed verification, another went through to a valid
\* status.
C15_Witness ==
    /\ ~skipChallengeVerification
    /\ \E i \in Authz : outcome["verifyChallenge"][i] = "raised"
    /\ \E j \in Authz : outcome["waitForValidStatus"][j] = "returned"

\* The hook of removal task i has been invoked.
RemoveStarted(i) == willRemovePromises[i] \in {"hook", "removed", "caught"}

\* C16: in the batch orchestrator the challengeCreateFn call of the task
\* at index i (authorization i + 1) starts no earlier than i * 2000 ms
\* after the provisioning tasks were started, the challengeRemoveFn call of
\* the removal task at index i no earlier than i * 2000 ms after the
\* removal tasks were started, and in each phase a hook is invoked only
\* after the hooks of all tasks before it.
C16_Stagger ==
    /\ \A i \in Authz :
          (pc = "create" /\ challengeCreatePromises[i] \in {"hook", "done"})
              => elapsed >= (i - 1) * 2000
    /\ \A i, j \in Authz :
          (i < j /\ N("challengeCreateFn", j) > 0) => N("challengeCreateFn", i) > 0
    /\ \A i \in Authz :
          (pc = "cleanup" /\ RemoveStarted(i))
              => elapsed >= Cardinality({j \in Authz : Created(j) /\ j < i}) * 2000
    /\ \A i, j \in Authz :
          (i < j /\ Created(i) /\ N("challengeRemoveFn", j) > 0)
              => N("challengeRemoveFn", i) > 0

\* The second hook has settled while the first, started before it, has not.
C16_Witness ==
    /\ N("challengeCreateFn", 1) > 0
    /\ outcome["challengeCreateFn"][1] = "none"
    /\ outcome["challengeCreateFn"][2] # "none"

\* C17: in the batch orchestrator every challengeRemoveFn call is for an
\* authorization whose challengeCreateFn returned, and gets the
\* authorization, challenge and key authorization that call got and the
\* record it returned; no call gets the record of another authorization.
C17_RecordHandBack ==
    \A i \in Authz :
        N("challengeRemoveFn", i) > 0 =>
            LET created == args["challengeCreateFn"][i]
                removed == args["challengeRemoveFn"][i]
            IN  /\ Created(i)
                /\ created.authz = i
                /\ removed.authz = created.authz
                /\ removed.challenge = created.challenge
                /\ removed.keyAuthorization = created.keyAuthorization
                /\ removed.record = Record(i)
                /\ \A j \in Authz \ {i} : removed.record # Record(j)

\* issue() has settled after both records were created and handed back.
C17_Witness ==
    /\ \A i \in Authz : N("challengeRemoveFn", i) > 0
    /\ result.status # "pending"

\* The verify/complete/waitForValidStatus sequence of authorization i is in
\* progress.
Verifying(i) == verifys[i] \in {"verify", "complete", "wait"}

\* C18: in the batch orchestrator challengeRemoveFn is not invoked for an
\* authorization whose own verification sequence is still in progress.
C18_RemoveAfterOwnVerification ==
    \A i \in Authz : N("challengeRemoveFn", i) > 0 => ~Verifying(i)

\* The operations that return a promise (getAccountUrl returns at once).
AsyncOps == Ops \ {"getAccountUrl"}

\* A call of op for index i has been made and has not settled.
InFlight(op, i) == N(op, i) > 0 /\ outcome[op][i] = "none"

\* C19: in the batch orchestrator, once issue() has settled no client
\* operation and no hook call is in flight (so none was left running and
\* none is started after).
C19_Quiescent ==
    result.status # "pending" =>
        \A op \in AsyncOps, i \in Idx : ~InFlight(op, i)

\* C20: in the batch orchestrator, every operation, hook and timer settling
\* in the end, issue() settles; it settles once, its outcome then staying
\* as it is, with the certificate getCertificate returned or an error.
C20_Termination ==
    /\ <>(result.status # "pending")
    /\ [][result.status # "pending" => result' = result]_vars
    /\ [](result.status = "returned" =>
            /\ result.value = "certificate"
            /\ outcome["getCertificate"][0] = "returned")

\* issue() has raised the error of getCertificate, its last step.
C20_Witness ==
    /\ result = Raised(Err("getCertificate", 0))
    /\ \A i \in Authz : RemoveSettled(i)

====
